---- MODULE Spec2Model ----
(***************************************************************************)
(* Model of the document normalization and reflow pipeline of              *)
(* backend/utils.py (read path: normalize_whitespace,                      *)
(* remove_repeated_header_footer, normalize_short, join_broken_lines,      *)
(* read_file_to_text; write path: chunk_paragraph and the two builders)    *)
(* and of the part of backend/main.py that classifies what was read.       *)
(*                                                                         *)
(* A Python str is a sequence of characters; a character is a one-element  *)
(* TLA+ string ("a", " ", "\n"), the non-breaking space is the token NBSP. *)
(***************************************************************************)
EXTENDS Integers, Sequences, FiniteSets, TLC

VARIABLES
    pc,                 \* position of the running operation
    text, once, twice,  \* normalize_whitespace: argument, result, result of the result
    pages_lines,        \* remove_repeated_header_footer: argument (pages of lines)
    header_candidates, footer_candidates, cleaned_pages,
    raw_text, outcome,  \* read_file_to_text's return value, clean_file's branch
    lines, i, j, run, out_lines, joined,   \* join_broken_lines
    paragraph, chunks,  \* chunk_paragraph
    content, pdf_i, story, docx_i, doc, failed   \* the two builders

vars == <<pc, text, once, twice, pages_lines, header_candidates,
          footer_candidates, cleaned_pages, raw_text, outcome,
          lines, i, j, run, out_lines, joined, paragraph, chunks,
          content, pdf_i, story, docx_i, doc, failed>>

nwVars   == <<text, once, twice>>
hfVars   == <<pages_lines, header_candidates, footer_candidates, cleaned_pages>>
readVars == <<raw_text, outcome>>
jblVars  == <<lines, i, j, run, out_lines, joined>>
ckVars   == <<paragraph, chunks>>
asmVars  == <<content, pdf_i, story, docx_i, doc, failed>>

-----------------------------------------------------------------------------
(* Characters and the str methods the code uses.                           *)

NBSP == "NBSP"

\* what str.strip() removes and what \s matches
Whitespace == {" ", "\t", "\n", "\r", NBSP}

Digits == {"0", "1", "2", "3", "4", "5", "6", "7", "8", "9"}

UpperSeq == <<"A","B","C","D","E","F","G","H","I","J","K","L","M",
              "N","O","P","Q","R","S","T","U","V","W","X","Y","Z">>

LowerSeq == <<"a","b","c","d","e","f","g","h","i","j","k","l","m",
              "n","o","p","q","r","s","t","u","v","w","x","y","z">>

LowerLetters == {LowerSeq[n] : n \in 1..26}

ToLower == [c \in {UpperSeq[n] : n \in 1..26} |->
               LowerSeq[CHOOSE n \in 1..26 : UpperSeq[n] = c]]

\* str.lower() on one character
LowerChar(c) == IF c \in DOMAIN ToLower THEN ToLower[c] ELSE c

Lower(s) == [n \in 1..Len(s) |-> LowerChar(s[n])]

\* s[a:] in Python, with a counted from 1
From(s, a) == SubSeq(s, a, Len(s))

\* number of leading characters of s that lie in set
RECURSIVE LeadLen(_, _)
LeadLen(s, set) ==
    IF s = <<>> \/ Head(s) \notin set THEN 0 ELSE 1 + LeadLen(Tail(s), set)

\* number of trailing characters of s that lie in set
RECURSIVE TrailLen(_, _)
TrailLen(s, set) ==
    IF s = <<>> \/ s[Len(s)] \notin set THEN 0
    ELSE 1 + TrailLen(SubSeq(s, 1, Len(s) - 1), set)

LStrip(s) == From(s, LeadLen(s, Whitespace) + 1)

RStrip(s) == SubSeq(s, 1, Len(s) - TrailLen(s, Whitespace))

Strip(s) == RStrip(LStrip(s))

StartsWith(s, p) == Len(s) >= Len(p) /\ SubSeq(s, 1, Len(p)) = p

EndsWith(s, p) == Len(s) >= Len(p) /\ SubSeq(s, Len(s) - Len(p) + 1, Len(s)) = p

\* sep.join(parts)
RECURSIVE Join(_, _)
Join(parts, sep) ==
    IF parts = <<>> THEN <<>>
    ELSE IF Len(parts) = 1 THEN parts[1]
    ELSE parts[1] \o sep \o Join(Tail(parts), sep)

\* the characters of a marked sequence that are not marked Dropped
Dropped == "DROPPED"

Kept(marked) == SelectSeq(marked, LAMBDA c : c # Dropped)

\* the first position of s that holds a character of set, Len(s) + 1 if none
FirstIn(s, set) ==
    LET at == {n \in 1..Len(s) : s[n] \in set}
    IN  IF at = {} THEN Len(s) + 1 ELSE CHOOSE n \in at : \A m \in at : n <= m

\* str.splitlines(): a line ends at "\n", at "\r" or at "\r\n"; no empty
\* last line is produced for a text that ends with a line break
RECURSIVE SplitLines(_)
SplitLines(s) ==
    IF s = <<>> THEN <<>>
    ELSE LET p == FirstIn(s, {"\n", "\r"})
         IN  IF p > Len(s) THEN <<s>>
             ELSE IF s[p] = "\r" /\ p < Len(s) /\ s[p + 1] = "\n"
                  THEN <<SubSeq(s, 1, p - 1)>> \o SplitLines(From(s, p + 2))
             ELSE <<SubSeq(s, 1, p - 1)>> \o SplitLines(From(s, p + 1))

-----------------------------------------------------------------------------
(* normalize_whitespace                                                    *)

\* text.replace(NBSP, " "), NBSP the character U+00A0
ReplaceNbsp(s) == [n \in 1..Len(s) |-> IF s[n] = NBSP THEN " " ELSE s[n]]

\* text.replace("\r", "")
RemoveCR(s) == SelectSeq(s, LAMBDA c : c # "\r")

\* re.sub(r"[ \t]{2,}", " ", text)
\* a run of two or more becomes one space: its first character is replaced
\* and the others go; a single space or tab stays as it is
CollapseSpaces(s) ==
    LET blank(n) == n >= 1 /\ n <= Len(s) /\ s[n] \in {" ", "\t"}
    IN  Kept([n \in 1..Len(s) |->
                IF blank(n) /\ blank(n - 1) THEN Dropped
                ELSE IF blank(n) /\ blank(n + 1) THEN " "
                ELSE s[n]])

\* re.sub(r"\n{3,}", "\n\n", text)
\* of a run of newlines the first two stay
CollapseNewlines(s) ==
    LET nl(n) == n >= 1 /\ s[n] = "\n"
    IN  Kept([n \in 1..Len(s) |->
                IF nl(n) /\ nl(n - 1) /\ nl(n - 2) THEN Dropped ELSE s[n]])

\* "\n".join([ln.strip() for ln in text.splitlines()])
TrimEachLine(s) ==
    LET ls == SplitLines(s)
    IN  Join([n \in 1..Len(ls) |-> Strip(ls[n])], <<"\n">>)

normalize_whitespace(s) ==
    IF s = <<>> THEN <<>>
    ELSE Strip(TrimEachLine(CollapseNewlines(CollapseSpaces(RemoveCR(ReplaceNbsp(s))))))

-----------------------------------------------------------------------------
(* normalize_short                                                         *)

Min(a, b) == IF a <= b THEN a ELSE b

\* s[a-1:b] in Python: a slice never reaches past the end
Slice(s, a, b) == SubSeq(s, a, Min(b, Len(s)))

\* re.sub(r"\s+", " ", s)
\* a run of whitespace becomes one space
CollapseWhitespace(s) ==
    LET ws(n) == n >= 1 /\ s[n] \in Whitespace
    IN  Kept([n \in 1..Len(s) |->
                IF ws(n) /\ ws(n - 1) THEN Dropped
                ELSE IF ws(n) THEN " "
                ELSE s[n]])

PageWord == <<"p", "a", "g", "e">>

OfWord == <<"o", "f">>

\* r"page\s*\d+(\s*of\s*\d+)?" tried at position p of s: the position after
\* the match, or 0 when it does not match there
PagePatternEnd(s, p) ==
    LET a  == p + Len(PageWord)
        b  == a + LeadLen(From(s, a), Whitespace)
        c  == b + LeadLen(From(s, b), Digits)
        d  == c + LeadLen(From(s, c), Whitespace)
        e  == d + Len(OfWord)
        f  == e + LeadLen(From(s, e), Whitespace)
        g  == f + LeadLen(From(s, f), Digits)
    IN  IF Slice(s, p, a - 1) # PageWord \/ c = b THEN 0
        ELSE IF Slice(s, d, e - 1) = OfWord /\ g > f THEN g
        ELSE c

\* re.sub(r"page\s*\d+(\s*of\s*\d+)?", "", s), scanning s from position p
RECURSIVE RemovePagePatternFrom(_, _)
RemovePagePatternFrom(s, p) ==
    IF p > Len(s) THEN <<>>
    ELSE LET q == PagePatternEnd(s, p)
         IN  IF q > 0 THEN RemovePagePatternFrom(s, q)
             ELSE <<s[p]>> \o RemovePagePatternFrom(s, p + 1)

RemovePagePattern(s) == RemovePagePatternFrom(s, 1)

\* normalize_short without the removal of the page-number pattern
normalize_short_KeepPageNumbers(s) == Strip(CollapseWhitespace(Lower(Strip(s))))

normalize_short(s) ==
    Strip(RemovePagePattern(CollapseWhitespace(Lower(Strip(s)))))

-----------------------------------------------------------------------------
(* remove_repeated_header_footer                                           *)

top_n == 3

bottom_n == 3

\* [ln.strip() for ln in lines if ln.strip()]
NonEmptyStripped(ls) ==
    SelectSeq([n \in 1..Len(ls) |-> Strip(ls[n])], LAMBDA ln : ln # <<>>)

\* keys of the first top_n non-empty lines of a page
TopKeys(ls) ==
    LET nonempty == NonEmptyStripped(ls)
    IN  [n \in 1..Min(top_n, Len(nonempty)) |-> normalize_short(nonempty[n])]

\* keys of the last bottom_n non-empty lines of a page
BottomKeys(ls) ==
    LET nonempty == NonEmptyStripped(ls)
    IN  [n \in 1..Min(bottom_n, Len(nonempty)) |->
            normalize_short(nonempty[Len(nonempty) + 1 - n])]

\* counts[key] = counts.get(key, 0) + 1
AddOne(counts, key) ==
    IF key \in DOMAIN counts THEN [counts EXCEPT ![key] = @ + 1]
    ELSE [k \in DOMAIN counts \cup {key} |-> IF k = key THEN 1 ELSE counts[k]]

\* counts after one is added for each entry of keys
RECURSIVE Tally(_, _)
Tally(keys, counts) ==
    IF keys = <<>> THEN counts ELSE Tally(Tail(keys), AddOne(counts, Head(keys)))

\* top_counts after the collecting loop: one is added for every candidate
\* line, on every page
RECURSIVE top_counts(_, _)
top_counts(pages, counts) ==
    IF pages = <<>> THEN counts
    ELSE top_counts(Tail(pages), Tally(TopKeys(Head(pages)), counts))

RECURSIVE bottom_counts(_, _)
bottom_counts(pages, counts) ==
    IF pages = <<>> THEN counts
    ELSE bottom_counts(Tail(pages), Tally(BottomKeys(Head(pages)), counts))

\* v > page_count * 0.5
OverHalf(v, page_count) == 2 * v > page_count

\* {k for k, v in counts.items() if v > page_count * 0.5}
Candidates(counts, page_count) ==
    {k \in DOMAIN counts : OverHalf(counts[k], page_count)}

NoCounts == [k \in {} |-> 0]

HeaderCandidates(pages) == Candidates(top_counts(pages, NoCounts), Len(pages))

FooterCandidates(pages) == Candidates(bottom_counts(pages, NoCounts), Len(pages))

\* idx after the loop that skips header candidates at the top of a page
RECURSIVE HeaderPrefixLen(_, _)
HeaderPrefixLen(ls, headers) ==
    IF ls # <<>> /\ Strip(Head(ls)) # <<>> /\ normalize_short(Head(ls)) \in headers
    THEN 1 + HeaderPrefixLen(Tail(ls), headers)
    ELSE 0

\* middle after the loop that pops footer candidates from its end
RECURSIVE PopFooters(_, _)
PopFooters(middle, footers) ==
    IF /\ middle # <<>>
       /\ Strip(middle[Len(middle)]) # <<>>
       /\ normalize_short(middle[Len(middle)]) \in footers
    THEN PopFooters(SubSeq(middle, 1, Len(middle) - 1), footers)
    ELSE middle

CleanPage(ls, headers, footers) ==
    NonEmptyStripped(PopFooters(From(ls, HeaderPrefixLen(ls, headers) + 1), footers))

CleanPages(pages, headers, footers) ==
    [p \in 1..Len(pages) |-> CleanPage(pages[p], headers, footers)]

remove_repeated_header_footer(pages) ==
    IF pages = <<>> THEN pages
    ELSE CleanPages(pages, HeaderCandidates(pages), FooterCandidates(pages))

-----------------------------------------------------------------------------
(* join_broken_lines                                                       *)

ShortLen == 40

SentenceEnd == {".", "!", "?", ":"}

\* run.endswith("-")
EndsWithHyphen(r) == r # <<>> /\ r[Len(r)] = "-"

\* re.search(r"[\.!\?:]\s*$", run)
EndsWithPunct(r) ==
    LET t == RStrip(r) IN t # <<>> /\ t[Len(t)] \in SentenceEnd

\* re.match(r"^[a-z0-9]", nxt)
StartsLowerOrDigit(nxt) == nxt # <<>> /\ nxt[1] \in LowerLetters \cup Digits

\* re.match(r"^[a-z]", nxt)
StartsLower(nxt) == nxt # <<>> /\ nxt[1] \in LowerLetters

\* the join that forgets to drop the hyphen
HyphenJoin_KeepHyphen(r, nxt) == r \o nxt

\* run = run[:-1] + nxt
HyphenJoin(r, nxt) == SubSeq(r, 1, Len(r) - 1) \o nxt

\* run = run + " " + nxt
SpaceJoin(r, nxt) == r \o <<" ">> \o nxt

\* what one pass of the inner loop does with the run and the (left-stripped,
\* non-blank) next line: the tests are made in the order of the code
MergeDecision(r, nxt) ==
    IF EndsWithHyphen(r) THEN "hyphen"
    ELSE IF EndsWithPunct(r) THEN "break"
    ELSE IF StartsLowerOrDigit(nxt) THEN "space"
    ELSE IF Len(r) < ShortLen /\ StartsLower(nxt) THEN "space"
    ELSE "break"

\* the inner loop from run r and index k: <<run, j>> when it is left
RECURSIVE AccumulateRun(_, _, _)
AccumulateRun(ls, r, k) ==
    IF k > Len(ls) THEN <<r, k>>
    ELSE LET nxt == LStrip(ls[k])
         IN  IF nxt = <<>> THEN <<r, k>>
             ELSE IF MergeDecision(r, nxt) = "hyphen"
                  THEN AccumulateRun(ls, HyphenJoin(r, nxt), k + 1)
             ELSE IF MergeDecision(r, nxt) = "space"
                  THEN AccumulateRun(ls, SpaceJoin(r, nxt), k + 1)
             ELSE <<r, k>>

\* out_lines appended by the outer loop from index k on
RECURSIVE OutLinesFrom(_, _)
OutLinesFrom(ls, k) ==
    IF k > Len(ls) THEN <<>>
    ELSE IF RStrip(ls[k]) = <<>> THEN <<(<<>>)>> \o OutLinesFrom(ls, k + 1)
    ELSE LET acc == AccumulateRun(ls, RStrip(ls[k]), k + 1)
         IN  <<Strip(acc[1])>> \o OutLinesFrom(ls, acc[2])

\* the paragraphs built from out_lines: runs between blank entries are
\* joined with one space
RECURSIVE Paragraphs(_, _)
Paragraphs(outs, cur_para) ==
    IF outs = <<>>
    THEN (IF cur_para # <<>> THEN <<Strip(Join(cur_para, <<" ">>))>> ELSE <<>>)
    ELSE IF Head(outs) = <<>>
         THEN (IF cur_para # <<>> THEN <<Strip(Join(cur_para, <<" ">>))>> ELSE <<>>)
              \o Paragraphs(Tail(outs), <<>>)
    ELSE Paragraphs(Tail(outs), Append(cur_para, Head(outs)))

\* "\n\n".join(paragraphs)
JoinParagraphs(outs) == Join(Paragraphs(outs, <<>>), <<"\n", "\n">>)

join_broken_lines(ls) == JoinParagraphs(OutLinesFrom(ls, 1))

-----------------------------------------------------------------------------
(* chunk_paragraph (the same function in both builders)                    *)

SentenceStop == {".", "!", "?"}

\* the first position of whitespace that follows a character of
\* SentenceStop, 0 if there is none: where r"(?<=[.!?])\s+" first matches
FirstSentenceGap(s) ==
    LET at == {n \in 2..Len(s) : s[n] \in Whitespace /\ s[n - 1] \in SentenceStop}
    IN  IF at = {} THEN 0 ELSE CHOOSE n \in at : \A m \in at : n <= m

\* re.split(r"(?<=[.!?])\s+", paragraph)
RECURSIVE SplitSentences(_)
SplitSentences(s) ==
    LET p == FirstSentenceGap(s)
    IN  IF p = 0 THEN <<s>>
        ELSE <<SubSeq(s, 1, p - 1)>>
             \o SplitSentences(From(s, p + LeadLen(From(s, p), Whitespace)))

\* the loop that leaves no room for the space it puts between two sentences
RECURSIVE PackSentences_NoRoom(_, _, _, _)
PackSentences_NoRoom(sentences, cur, packed, max_chars) ==
    IF sentences = <<>>
    THEN (IF cur # <<>> THEN Append(packed, Strip(cur)) ELSE packed)
    ELSE LET sentence == Head(sentences)
         IN  IF Len(cur) + Len(sentence) <= max_chars
             THEN PackSentences_NoRoom(Tail(sentences),
                                       Strip(cur \o <<" ">> \o sentence),
                                       packed, max_chars)
             ELSE PackSentences_NoRoom(Tail(sentences), sentence,
                                       IF cur # <<>> THEN Append(packed, Strip(cur))
                                       ELSE packed,
                                       max_chars)

\* the loop over the sentences and the append after it: the chunks
RECURSIVE PackSentences(_, _, _, _)
PackSentences(sentences, cur, packed, max_chars) ==
    IF sentences = <<>>
    THEN (IF cur # <<>> THEN Append(packed, Strip(cur)) ELSE packed)
    ELSE LET sentence == Head(sentences)
         IN  IF Len(cur) + Len(sentence) + 1 <= max_chars
             THEN PackSentences(Tail(sentences), Strip(cur \o <<" ">> \o sentence),
                                packed, max_chars)
             ELSE PackSentences(Tail(sentences), sentence,
                                IF cur # <<>> THEN Append(packed, Strip(cur)) ELSE packed,
                                max_chars)

\* the pieces that drop the last character of every full piece
HardSplit_DropsLast(c, max_chars) ==
    [n \in 1..((Len(c) + max_chars - 1) \div max_chars) |->
        Slice(c, (n - 1) * max_chars + 1, n * max_chars - 1)]

\* [c[j:j+max_chars] for j in range(0, len(c), max_chars)]
HardSplit(c, max_chars) ==
    [n \in 1..((Len(c) + max_chars - 1) \div max_chars) |->
        Slice(c, (n - 1) * max_chars + 1, n * max_chars)]

\* the loop that splits the chunks that are still too long
RECURSIVE SplitLong(_, _)
SplitLong(packed, max_chars) ==
    IF packed = <<>> THEN <<>>
    ELSE (IF Len(Head(packed)) <= max_chars THEN <<Head(packed)>>
          ELSE HardSplit(Head(packed), max_chars))
         \o SplitLong(Tail(packed), max_chars)

chunk_paragraph(para, max_chars) ==
    IF Len(para) <= max_chars THEN <<para>>
    ELSE SplitLong(PackSentences(SplitSentences(para), <<>>, <<>>, max_chars), max_chars)

-----------------------------------------------------------------------------
(* The two builders: what they make of the lines of their argument.        *)
(* A block is a record: a table with its rows of cell texts, a paragraph   *)
(* with its text, a spacer with its height.                                *)

\* "|" in line
HasPipe(line) == \E n \in DOMAIN line : line[n] = "|"

\* re.match(r"^[\|\-\s:]+$", line)
IsSeparator(line) ==
    /\ line # <<>>
    /\ \A n \in DOMAIN line : line[n] \in {"|", "-", ":"} \cup Whitespace

is_table_start(line, next_line) ==
    IF ~HasPipe(line) THEN FALSE
    ELSE IF IsSeparator(next_line) THEN TRUE
    ELSE HasPipe(line)

\* how many lines from position k on hold a pipe, one after the other
RECURSIVE TableRunLen(_, _)
TableRunLen(ls, k) ==
    IF k <= Len(ls) /\ HasPipe(ls[k]) THEN 1 + TableRunLen(ls, k + 1) ELSE 0

DropSeparator_Keeps(table_lines) == table_lines

\* the pop of the separator row
DropSeparator(table_lines) ==
    IF Len(table_lines) > 1 /\ IsSeparator(table_lines[2])
    THEN <<table_lines[1]>> \o From(table_lines, 3)
    ELSE table_lines

\* line.split("|")
RECURSIVE SplitAtPipes(_)
SplitAtPipes(line) ==
    LET p == FirstIn(line, {"|"})
    IN  IF p > Len(line) THEN <<line>>
        ELSE <<SubSeq(line, 1, p - 1)>> \o SplitAtPipes(From(line, p + 1))

\* [c.strip() for c in tbl_line.split("|")[1:-1]]
Cells(line) ==
    LET parts == SplitAtPipes(line)
    IN  [n \in 1..(Len(parts) - 2) |-> Strip(parts[n + 1])]

\* a row is kept: not (not cells or all(not c for c in cells)); not (not any(cells))
RowKept(cells) == cells # <<>> /\ \E n \in DOMAIN cells : cells[n] # <<>>

\* html.escape on one character
EscapeChar(c) ==
    IF c = "&" THEN <<"&","a","m","p",";">>
    ELSE IF c = "<" THEN <<"&","l","t",";">>
    ELSE IF c = ">" THEN <<"&","g","t",";">>
    ELSE IF c = "\"" THEN <<"&","q","u","o","t",";">>
    ELSE IF c = "'" THEN <<"&","#","x","2","7",";">>
    ELSE <<c>>

\* html.escape(s)
RECURSIVE Escape(_)
Escape(s) == IF s = <<>> THEN <<>> ELSE EscapeChar(Head(s)) \o Escape(Tail(s))

\* table_data of the PDF builder: the kept rows, every cell escaped
PdfTableData(table_lines) ==
    LET rows == [n \in 1..Len(table_lines) |-> Cells(table_lines[n])]
        kept == SelectSeq(rows, RowKept)
    IN  [n \in 1..Len(kept) |-> [c \in 1..Len(kept[n]) |-> Escape(kept[n][c])]]

\* table_data of the DOCX builder: the kept rows
DocxTableData(table_lines) ==
    LET rows == [n \in 1..Len(table_lines) |-> Cells(table_lines[n])]
    IN  SelectSeq(rows, RowKept)

RECURSIVE MaxLen(_)
MaxLen(rows) ==
    IF rows = <<>> THEN 0
    ELSE LET rest == MaxLen(Tail(rows))
         IN  IF Len(Head(rows)) >= rest THEN Len(Head(rows)) ELSE rest

\* Table(table_data, repeatRows=1): reportlab takes the longest row's length
\* as the number of columns and fills shorter rows with empty cells
PdfTable(table_data) ==
    LET ncols == MaxLen(table_data)
    IN  [kind   |-> "table",
         raised |-> FALSE,
         rows   |-> [r \in 1..Len(table_data) |->
                     [c \in 1..ncols |->
                         IF c <= Len(table_data[r]) THEN table_data[r][c] ELSE <<>>]]]

\* the cells of the DOCX table, row after row, after t.cell(r_idx, c_idx).text
\* = cell for the cells from row r, column c on; python-docx finds the cell
\* at c_idx + r_idx * cols in that list and raises IndexError when that is
\* past the end of the list
RECURSIVE SetCells(_, _, _, _, _)
SetCells(grid, table_data, ncols, r, c) ==
    IF r > Len(table_data) THEN [raised |-> FALSE, cells |-> grid]
    ELSE IF c > Len(table_data[r]) THEN SetCells(grid, table_data, ncols, r + 1, 1)
    ELSE LET at == c + (r - 1) * ncols
         IN  IF at > Len(grid) THEN [raised |-> TRUE, cells |-> grid]
             ELSE SetCells([grid EXCEPT ![at] = table_data[r][c]],
                           table_data, ncols, r, c + 1)

\* doc.add_table(rows=len(table_data), cols=len(table_data[0])) and the
\* loops that set the cells: the table, or that IndexError was raised
DocxTable(table_data) ==
    LET nrows == Len(table_data)
        ncols == Len(table_data[1])
        set   == SetCells([n \in 1..(nrows * ncols) |-> <<>>], table_data, ncols, 1, 1)
    IN  [kind   |-> "table",
         raised |-> set.raised,
         rows   |-> [r \in 1..nrows |->
                        SubSeq(set.cells, (r - 1) * ncols + 1, r * ncols)]]

\* how many lines from position k on are neither blank nor hold a pipe
RECURSIVE ParaRunLen(_, _)
ParaRunLen(ls, k) ==
    IF k <= Len(ls) /\ Strip(ls[k]) # <<>> /\ ~HasPipe(ls[k])
    THEN 1 + ParaRunLen(ls, k + 1)
    ELSE 0

\* para_lines collected from position k on
ParaLines(ls, k) == [n \in 1..ParaRunLen(ls, k) |-> Strip(ls[k + n - 1])]

\* one pass of the builders' merging loop: the tests in the order of the code
BuilderMergeDecision(cur, nxt) ==
    IF EndsWithHyphen(cur) THEN "hyphen"
    ELSE IF EndsWithPunct(cur) THEN "break"
    ELSE IF StartsLowerOrDigit(nxt) \/ Len(cur) < ShortLen THEN "space"
    ELSE "break"

\* the inner loop from cur and index k: <<cur, k>> when it is left
RECURSIVE MergeFrom(_, _, _)
MergeFrom(para_lines, cur, k) ==
    IF k > Len(para_lines) THEN <<cur, k>>
    ELSE IF BuilderMergeDecision(cur, para_lines[k]) = "hyphen"
         THEN MergeFrom(para_lines, HyphenJoin(cur, para_lines[k]), k + 1)
    ELSE IF BuilderMergeDecision(cur, para_lines[k]) = "space"
         THEN MergeFrom(para_lines, SpaceJoin(cur, para_lines[k]), k + 1)
    ELSE <<cur, k>>

\* joined: the merged paragraphs of para_lines from position k on
RECURSIVE JoinedFrom(_, _)
JoinedFrom(para_lines, k) ==
    IF k > Len(para_lines) THEN <<>>
    ELSE LET merged == MergeFrom(para_lines, para_lines[k], k + 1)
         IN  <<Strip(merged[1])>> \o JoinedFrom(para_lines, merged[2])

max_chars == 900

\* the chunks of all paragraphs of joined, in order
RECURSIVE ChunksOf(_)
ChunksOf(paras) ==
    IF paras = <<>> THEN <<>>
    ELSE chunk_paragraph(Head(paras), max_chars) \o ChunksOf(Tail(paras))

ParaTagOpen == <<"<","p","a","r","a",">">>

ParaTagClose == <<"<","/","p","a","r","a",">">>

\* re.sub(r"</?para>", "", chunk, flags=re.IGNORECASE), from position p on
RECURSIVE StripParaTagsFrom(_, _)
StripParaTagsFrom(s, p) ==
    IF p > Len(s) THEN <<>>
    ELSE IF Lower(Slice(s, p, p + 5)) = ParaTagOpen THEN StripParaTagsFrom(s, p + 6)
    ELSE IF Lower(Slice(s, p, p + 6)) = ParaTagClose THEN StripParaTagsFrom(s, p + 7)
    ELSE <<s[p]>> \o StripParaTagsFrom(s, p + 1)

\* .replace("\n", "<br/>")
RECURSIVE BreakLines(_)
BreakLines(s) ==
    IF s = <<>> THEN <<>>
    ELSE (IF Head(s) = "\n" THEN <<"<","b","r","/",">">> ELSE <<Head(s)>>)
         \o BreakLines(Tail(s))

\* what the PDF builder appends for para_lines: per chunk a paragraph and a spacer
RECURSIVE PdfChunkBlocks(_)
PdfChunkBlocks(cs) ==
    IF cs = <<>> THEN <<>>
    ELSE << [kind |-> "para",
             text |-> BreakLines(Escape(StripParaTagsFrom(Head(cs), 1)))],
            [kind |-> "spacer", height |-> 8] >>
         \o PdfChunkBlocks(Tail(cs))

PdfParaBlocks(para_lines) == PdfChunkBlocks(ChunksOf(JoinedFrom(para_lines, 1)))

\* what the DOCX builder appends: per chunk a paragraph, then an empty one
DocxParaBlocks(para_lines) ==
    LET cs == ChunksOf(JoinedFrom(para_lines, 1))
    IN  [n \in 1..Len(cs) |-> [kind |-> "para", text |-> Escape(cs[n])]]
        \o << [kind |-> "para", text |-> <<>>] >>

-----------------------------------------------------------------------------
(* read_file_to_text, PDF branch, and clean_file's use of its result       *)

\* any(pages_text)
AnyPage(pages) == \E p \in DOMAIN pages : pages[p] # <<>>

\* normalize_whitespace("\n\n".join(join_broken_lines(lines) for each page))
PagesToText(pages) ==
    normalize_whitespace(
        Join([p \in 1..Len(pages) |-> join_broken_lines(pages[p])], <<"\n", "\n">>))

\* "raw_text is None" in place of the test for an empty text
NoTextFound_NoneOnly(t) == FALSE

\* not raw_text or not raw_text.strip()
NoTextFound(t) == t = <<>> \/ Strip(t) = <<>>

\* the branch clean_file takes for a file that was read without an exception
Classify(t) == IF NoTextFound(t) THEN "no_text" ELSE "ok"

-----------------------------------------------------------------------------
(* Bounded sets of strings.                                                *)

\* all sequences over set of length at most n
RECURSIVE SeqsUpTo(_, _)
SeqsUpTo(set, n) ==
    IF n = 0 THEN {<<>>}
    ELSE LET shorter == SeqsUpTo(set, n - 1)
         IN  shorter \cup {Append(s, c) : s \in shorter, c \in set}

MaxTextLen == 6

TextChars == {"a", " ", "\t", "\n", "\r", NBSP}

-----------------------------------------------------------------------------
(* Values of the variables an operation does not use.                      *)

IdleNW   == text = <<>> /\ once = <<>> /\ twice = <<>>
IdleHF   == /\ pages_lines = <<>> /\ header_candidates = {}
            /\ footer_candidates = {} /\ cleaned_pages = <<>>
IdleRead == raw_text = <<>> /\ outcome = "none"
IdleJBL  == /\ lines = <<>> /\ i = 0 /\ j = 0 /\ run = <<>>
            /\ out_lines = <<>> /\ joined = <<>>
IdleCK   == paragraph = <<>> /\ chunks = <<>>
IdleASM  == /\ content = <<>> /\ pdf_i = 0 /\ story = <<>>
            /\ docx_i = 0 /\ doc = <<>> /\ failed = FALSE

-----------------------------------------------------------------------------
(* normalize_whitespace applied to a text and to its own result.           *)

InitNW ==
    /\ pc = "start"
    /\ text \in SeqsUpTo(TextChars, MaxTextLen)
    /\ once = <<>> /\ twice = <<>>
    /\ IdleHF /\ IdleRead /\ IdleJBL /\ IdleCK /\ IdleASM

Normalize ==
    /\ pc = "start"
    /\ once' = normalize_whitespace(text)
    /\ pc' = "normalized"
    /\ UNCHANGED <<text, twice, hfVars, readVars, jblVars, ckVars, asmVars>>

NormalizeAgain ==
    /\ pc = "normalized"
    /\ twice' = normalize_whitespace(once)
    /\ pc' = "done"
    /\ UNCHANGED <<text, once, hfVars, readVars, jblVars, ckVars, asmVars>>

NextNW == Normalize \/ NormalizeAgain

SpecNW == InitNW /\ [][NextNW]_vars

-----------------------------------------------------------------------------
(* read_file_to_text on the pages of a PDF, then clean_file's branch.      *)
(* The pages are what lines 42-48 extract: per page, the list of the       *)
(* right-stripped lines of its text.                                       *)

LineBody == <<"B","o","d","y"," ","t","e","x","t">>

ConfidentialReport ==
    <<"C","o","n","f","i","d","e","n","t","i","a","l"," ","R","e","p","o","r","t">>

DigitSeq == <<"1", "2", "3", "4", "5", "6", "7", "8", "9">>

\* the line "Page n of m"
PageOf(n, m) ==
    <<"P","a","g","e"," ">> \o <<DigitSeq[n]>> \o <<" ","o","f"," ">> \o <<DigitSeq[m]>>

\* a body line of page n, "Text n"
TextOf(n) == <<"T","e","x","t"," ">> \o <<DigitSeq[n]>>

MaxPages == 2

MaxPageLines == 2

MaxReportPages == 2

MaxBodyLines == 2

PlainLines == {LineBody, <<>>}

\* what the body of page p of a report is made of
BodyLines(p) == {TextOf(p), ConfidentialReport}

\* the bodies of the pages of a report of n pages
ReportBodies(n) ==
    LET bodies(p) == SeqsUpTo(BodyLines(p), MaxBodyLines)
    IN  {body \in [1..n -> UNION {bodies(p) : p \in 1..n}] :
            \A p \in 1..n : body[p] \in bodies(p)}

\* any pages of plain lines
PlainPages == SeqsUpTo(SeqsUpTo(PlainLines, MaxPageLines), MaxPages)

\* n pages, each "Confidential Report", a body, "Page p of n"
ReportPages ==
    UNION {{[p \in 1..n |-> <<ConfidentialReport>> \o body[p] \o <<PageOf(p, n)>>] :
               body \in ReportBodies(n)} :
           n \in 2..MaxReportPages}

InitRead ==
    /\ pc = "start"
    /\ pages_lines \in PlainPages \cup ReportPages
    /\ header_candidates = {} /\ footer_candidates = {} /\ cleaned_pages = <<>>
    /\ IdleNW /\ IdleRead /\ IdleJBL /\ IdleCK /\ IdleASM

\* lines 50-51: no page has a line
ReturnNoText ==
    /\ pc = "start"
    /\ ~AnyPage(pages_lines)
    /\ raw_text' = <<>>
    /\ pc' = "returned"
    /\ UNCHANGED <<nwVars, hfVars, outcome, jblVars, ckVars, asmVars>>

\* line 54: remove_repeated_header_footer
RemoveHeaderFooter ==
    /\ pc = "start"
    /\ AnyPage(pages_lines)
    /\ header_candidates' = HeaderCandidates(pages_lines)
    /\ footer_candidates' = FooterCandidates(pages_lines)
    /\ cleaned_pages' = CleanPages(pages_lines, header_candidates', footer_candidates')
    /\ pc' = "cleaned"
    /\ UNCHANGED <<nwVars, pages_lines, readVars, jblVars, ckVars, asmVars>>

\* lines 56-65
JoinAndNormalize ==
    /\ pc = "cleaned"
    /\ raw_text' = PagesToText(cleaned_pages)
    /\ pc' = "returned"
    /\ UNCHANGED <<nwVars, hfVars, outcome, jblVars, ckVars, asmVars>>

\* clean_file, lines 141-146
CleanFile ==
    /\ pc = "returned"
    /\ outcome' = Classify(raw_text)
    /\ pc' = "done"
    /\ UNCHANGED <<nwVars, hfVars, raw_text, jblVars, ckVars, asmVars>>

NextRead == ReturnNoText \/ RemoveHeaderFooter \/ JoinAndNormalize \/ CleanFile

SpecRead == InitRead /\ [][NextRead]_vars

-----------------------------------------------------------------------------
(* join_broken_lines, one pass of its loops at a time.  Positions count    *)
(* from 1: i and j are one more than in the code.                          *)

FirstSentence == <<"F","i","r","s","t"," ","s","e","n","t","e","n","c","e",".">>

SecondSentence == <<"S","e","c","o","n","d"," ","s","e","n","t","e","n","c","e",".">>

ThisIsASen == <<"T","h","i","s"," ","i","s"," ","a"," ","s","e","n","-">>

Tence == <<"t","e","n","c","e",".">>

SecondPart == <<"s","e","c","o","n","d"," ","p","a","r","t">>

PageLines == {FirstSentence, SecondSentence, ThisIsASen, Tence, SecondPart, <<>>}

MaxLines == 3

InitJBL ==
    /\ pc = "outer"
    /\ lines \in SeqsUpTo(PageLines, MaxLines)
    /\ i = 1 /\ j = 0 /\ run = <<>> /\ out_lines = <<>> /\ joined = <<>>
    /\ IdleNW /\ IdleHF /\ IdleRead /\ IdleCK /\ IdleASM

\* lines 170-175
BlankLine ==
    /\ pc = "outer"
    /\ i <= Len(lines)
    /\ RStrip(lines[i]) = <<>>
    /\ out_lines' = Append(out_lines, <<>>)
    /\ i' = i + 1
    /\ UNCHANGED <<pc, lines, j, run, joined, nwVars, hfVars, readVars, ckVars, asmVars>>

\* lines 170, 178-179
StartRun ==
    /\ pc = "outer"
    /\ i <= Len(lines)
    /\ RStrip(lines[i]) # <<>>
    /\ run' = RStrip(lines[i])
    /\ j' = i + 1
    /\ pc' = "inner"
    /\ UNCHANGED <<lines, i, out_lines, joined, nwVars, hfVars, readVars, ckVars, asmVars>>

\* lines 185-188
JoinHyphenated ==
    /\ pc = "inner"
    /\ j <= Len(lines)
    /\ LStrip(lines[j]) # <<>>
    /\ MergeDecision(run, LStrip(lines[j])) = "hyphen"
    /\ run' = HyphenJoin(run, LStrip(lines[j]))
    /\ j' = j + 1
    /\ UNCHANGED <<pc, lines, i, out_lines, joined, nwVars, hfVars, readVars, ckVars, asmVars>>

\* lines 193-201
JoinContinuation ==
    /\ pc = "inner"
    /\ j <= Len(lines)
    /\ LStrip(lines[j]) # <<>>
    /\ MergeDecision(run, LStrip(lines[j])) = "space"
    /\ run' = SpaceJoin(run, LStrip(lines[j]))
    /\ j' = j + 1
    /\ UNCHANGED <<pc, lines, i, out_lines, joined, nwVars, hfVars, readVars, ckVars, asmVars>>

\* the inner loop is left (lines 180, 183, 191, 203), then lines 205-206
CloseRun ==
    /\ pc = "inner"
    /\ IF j > Len(lines) THEN TRUE
       ELSE IF LStrip(lines[j]) = <<>> THEN TRUE
       ELSE MergeDecision(run, LStrip(lines[j])) = "break"
    /\ out_lines' = Append(out_lines, Strip(run))
    /\ i' = j
    /\ pc' = "outer"
    /\ UNCHANGED <<lines, j, run, joined, nwVars, hfVars, readVars, ckVars, asmVars>>

\* lines 208-221
ReturnJoined ==
    /\ pc = "outer"
    /\ i > Len(lines)
    /\ joined' = JoinParagraphs(out_lines)
    /\ pc' = "done"
    /\ UNCHANGED <<lines, i, j, run, out_lines, nwVars, hfVars, readVars, ckVars, asmVars>>

NextJBL ==
    BlankLine \/ StartRun \/ JoinHyphenated \/ JoinContinuation \/ CloseRun \/ ReturnJoined

SpecJBL == InitJBL /\ [][NextJBL]_vars

\* the loops taken one pass at a time return what the function returns
JBLStepsAgree == pc = "done" => joined = join_broken_lines(lines)

-----------------------------------------------------------------------------
(* chunk_paragraph on the paragraphs the builders pass to it: the merged   *)
(* lines, stripped (joined.append(cur.strip())).  The code's max_chars is  *)
(* 900; MaxChars is that limit scaled down with the paragraphs.            *)

MaxChars == 3

MaxParaLen == 7

ParaChars == {"a", " ", "."}

InitCK ==
    /\ pc = "start"
    /\ paragraph \in {Strip(s) : s \in SeqsUpTo(ParaChars, MaxParaLen)}
    /\ chunks = <<>>
    /\ IdleNW /\ IdleHF /\ IdleRead /\ IdleJBL /\ IdleASM

ChunkParagraph ==
    /\ pc = "start"
    /\ chunks' = chunk_paragraph(paragraph, MaxChars)
    /\ pc' = "done"
    /\ UNCHANGED <<paragraph, nwVars, hfVars, readVars, jblVars, asmVars>>

NextCK == ChunkParagraph

SpecCK == InitCK /\ [][NextCK]_vars

-----------------------------------------------------------------------------
(* build_pdf_from_text_or_markdown, then build_docx_from_text, on the same *)
(* content, one pass of each main loop at a time.  content holds           *)
(* content.splitlines(); pdf_i and docx_i are one more than the code's i.  *)
(* A table line of the inputs is written from its cells, | c | c |.        *)

RECURSIVE Row(_)
Row(cells) ==
    IF cells = <<>> THEN <<"|">>
    ELSE <<"|", " ">> \o Head(cells) \o <<" ">> \o Row(Tail(cells))

HeaderCells == << <<"H">>, <<"K">> >>

DataCells == << <<"a">>, <<"&">> >>

ShortCells == << <<"c">> >>

LongCells == << <<"d">>, <<"e">>, <<"f">> >>

TableRows == {HeaderCells, DataCells, ShortCells, LongCells}

SeparatorLine == <<"|", "-", "|", "-", "|">>

ProseLine == <<"T", "e", "x", "t">>

AsmLines == {Row(cells) : cells \in TableRows} \cup {SeparatorLine, ProseLine, <<>>}

MaxAsmLines == 4

InitASM ==
    /\ pc = "pdf"
    /\ content \in SeqsUpTo(AsmLines, MaxAsmLines)
    /\ pdf_i = 1
    /\ story = <<>>
    /\ docx_i = 1
    /\ doc = <<>>
    /\ failed = FALSE
    /\ IdleNW /\ IdleHF /\ IdleRead /\ IdleJBL /\ IdleCK

\* lines[i+1].strip() if i+1 < len(lines) else ""
NextLine(ls, k) == IF k + 1 <= Len(ls) THEN Strip(ls[k + 1]) ELSE <<>>

\* table_lines of the run that starts at position k
TableLines(ls, k) ==
    DropSeparator(SubSeq(ls, k, k + TableRunLen(ls, k) - 1))

\* lines 282-315
PdfTableRun ==
    /\ pc = "pdf"
    /\ pdf_i <= Len(content)
    /\ is_table_start(Strip(content[pdf_i]), NextLine(content, pdf_i))
    /\ LET table_data == PdfTableData(TableLines(content, pdf_i))
       IN  story' = IF table_data # <<>> /\ Len(table_data[1]) > 0
                    THEN story \o <<PdfTable(table_data),
                                    [kind |-> "spacer", height |-> 12]>>
                    ELSE story
    /\ pdf_i' = pdf_i + TableRunLen(content, pdf_i)
    /\ UNCHANGED <<pc, content, docx_i, doc, failed,
                   nwVars, hfVars, readVars, jblVars, ckVars>>

\* lines 317-348
PdfParagraphRun ==
    /\ pc = "pdf"
    /\ pdf_i <= Len(content)
    /\ ~is_table_start(Strip(content[pdf_i]), NextLine(content, pdf_i))
    /\ ParaRunLen(content, pdf_i) > 0
    /\ story' = story \o PdfParaBlocks(ParaLines(content, pdf_i))
    /\ pdf_i' = pdf_i + ParaRunLen(content, pdf_i)
    /\ UNCHANGED <<pc, content, docx_i, doc, failed,
                   nwVars, hfVars, readVars, jblVars, ckVars>>

\* lines 349-350
PdfBlankLine ==
    /\ pc = "pdf"
    /\ pdf_i <= Len(content)
    /\ ~is_table_start(Strip(content[pdf_i]), NextLine(content, pdf_i))
    /\ ParaRunLen(content, pdf_i) = 0
    /\ pdf_i' = pdf_i + 1
    /\ UNCHANGED <<pc, content, story, docx_i, doc, failed,
                   nwVars, hfVars, readVars, jblVars, ckVars>>

\* lines 352-354: the loop is left and the document is built
PdfBuild ==
    /\ pc = "pdf"
    /\ pdf_i > Len(content)
    /\ pc' = "docx"
    /\ UNCHANGED <<asmVars, nwVars, hfVars, readVars, jblVars, ckVars>>

\* lines 419-445; an IndexError leaves the builder, and the caller has no
\* document
DocxTableRun ==
    /\ pc = "docx"
    /\ docx_i <= Len(content)
    /\ is_table_start(Strip(content[docx_i]), NextLine(content, docx_i))
    /\ LET table_data == DocxTableData(TableLines(content, docx_i))
       IN  IF table_data = <<>>
           THEN /\ docx_i' = docx_i + TableRunLen(content, docx_i)
                /\ UNCHANGED <<pc, doc, failed>>
           ELSE IF DocxTable(table_data).raised
           THEN /\ failed' = TRUE
                /\ pc' = "done"
                /\ docx_i' = docx_i + TableRunLen(content, docx_i)
                /\ UNCHANGED doc
           ELSE /\ doc' = doc \o <<DocxTable(table_data),
                                   [kind |-> "para", text |-> <<>>]>>
                /\ docx_i' = docx_i + TableRunLen(content, docx_i)
                /\ UNCHANGED <<pc, failed>>
    /\ UNCHANGED <<content, pdf_i, story,
                   nwVars, hfVars, readVars, jblVars, ckVars>>

\* lines 449-487
DocxParagraphRun ==
    /\ pc = "docx"
    /\ docx_i <= Len(content)
    /\ ~is_table_start(Strip(content[docx_i]), NextLine(content, docx_i))
    /\ ParaRunLen(content, docx_i) > 0
    /\ doc' = doc \o DocxParaBlocks(ParaLines(content, docx_i))
    /\ docx_i' = docx_i + ParaRunLen(content, docx_i)
    /\ UNCHANGED <<pc, content, pdf_i, story, failed,
                   nwVars, hfVars, readVars, jblVars, ckVars>>

\* lines 488-489
DocxBlankLine ==
    /\ pc = "docx"
    /\ docx_i <= Len(content)
    /\ ~is_table_start(Strip(content[docx_i]), NextLine(content, docx_i))
    /\ ParaRunLen(content, docx_i) = 0
    /\ docx_i' = docx_i + 1
    /\ UNCHANGED <<pc, content, pdf_i, story, doc, failed,
                   nwVars, hfVars, readVars, jblVars, ckVars>>

\* lines 492-494: the loop is left and the document is saved
DocxSave ==
    /\ pc = "docx"
    /\ docx_i > Len(content)
    /\ pc' = "done"
    /\ UNCHANGED <<asmVars, nwVars, hfVars, readVars, jblVars, ckVars>>

NextASM ==
    \/ PdfTableRun
    \/ PdfParagraphRun
    \/ PdfBlankLine
    \/ PdfBuild
    \/ DocxTableRun
    \/ DocxParagraphRun
    \/ DocxBlankLine
    \/ DocxSave

SpecASM == InitASM /\ [][NextASM]_vars

-----------------------------------------------------------------------------
(* The builders on contents with a line that holds a pipe but has no cell  *)
(* between outer pipes.                                                    *)

PipeProse == <<"p", "|", "q">>

FragLines == {PipeProse, ProseLine, Row(DataCells), <<>>}

InitFrag ==
    /\ pc = "pdf"
    /\ content \in SeqsUpTo(FragLines, MaxAsmLines)
    /\ pdf_i = 1
    /\ story = <<>>
    /\ docx_i = 1
    /\ doc = <<>>
    /\ failed = FALSE
    /\ IdleNW /\ IdleHF /\ IdleRead /\ IdleJBL /\ IdleCK

SpecFrag == InitFrag /\ [][NextASM]_vars

-----------------------------------------------------------------------------
(* Properties of chunk_paragraph.                                          *)

RECURSIVE Concat(_)
Concat(parts) == IF parts = <<>> THEN <<>> ELSE Head(parts) \o Concat(Tail(parts))

NoSentenceStop(s) == \A n \in DOMAIN s : s[n] \notin SentenceStop

\* C8: a paragraph longer than max_chars with none of . ! ? in it is cut into
\* pieces of at most max_chars characters each which, put together in their
\* order, are the paragraph again.
C8_HardSplitExact ==
    (pc = "done" /\ Len(paragraph) > MaxChars /\ NoSentenceStop(paragraph)) =>
        /\ Concat(chunks) = paragraph
        /\ \A n \in DOMAIN chunks : Len(chunks[n]) >= 1 /\ Len(chunks[n]) <= MaxChars

C8_Witness ==
    /\ pc = "done"
    /\ Len(paragraph) > 2 * MaxChars
    /\ NoSentenceStop(paragraph)
    /\ \E n \in DOMAIN paragraph : paragraph[n] = " "
    /\ Len(chunks) = 3

\* the chunks cs are made of the sentences ss in their order: a chunk is
\* one or more whole sentences with one space between them, and only a
\* sentence longer than MaxChars is spread over chunks of its characters
RECURSIVE WholeSentences(_, _)
WholeSentences(cs, ss) ==
    IF ss = <<>> THEN cs = <<>>
    ELSE \/ /\ cs # <<>>
            /\ \E k \in 1..Len(ss) :
                  /\ Head(cs) = Join(SubSeq(ss, 1, k), <<" ">>)
                  /\ WholeSentences(Tail(cs), From(ss, k + 1))
         \/ /\ Len(Head(ss)) > MaxChars
            /\ \E m \in 1..Len(cs) :
                  /\ Concat(SubSeq(cs, 1, m)) = Head(ss)
                  /\ WholeSentences(From(cs, m + 1), Tail(ss))

\* C14: a paragraph of at most max_chars characters is its own single chunk;
\* of a longer one every chunk is one or more whole sentences, except that
\* a sentence longer than max_chars is cut into chunks of its own characters;
\* and no chunk is longer than max_chars.
C14_WholeSentences ==
    pc = "done" =>
        /\ Len(paragraph) <= MaxChars => chunks = <<paragraph>>
        /\ Len(paragraph) > MaxChars
              => WholeSentences(chunks, SplitSentences(paragraph))
        /\ \A n \in DOMAIN chunks : Len(chunks[n]) <= MaxChars

\* two sentences: the first is a chunk, the second is longer than max_chars
\* and is cut
C14_Witness ==
    /\ pc = "done"
    /\ SplitSentences(paragraph) = << <<".">>, <<"a", "a", "a", "a">> >>
    /\ Len(chunks) = 3
    /\ chunks[1] = <<".">>

-----------------------------------------------------------------------------
(* Properties of join_broken_lines.                                        *)

NoLineBreak(s) == \A n \in DOMAIN s : s[n] # "\n"

\* the rule of lines 190-196 for a first line and the line after it
ContinuationRule(first, second) ==
    /\ ~EndsWithPunct(RStrip(first))
    /\ StartsLowerOrDigit(LStrip(second))

\* C6: "First sentence." and "Second sentence." with a blank line between
\* them come out as two paragraphs; with no blank line between them they come
\* out as one line only if the rule fires (the first does not end with
\* . ! ? : and the second starts with a lowercase letter or a digit), and
\* are not merged into one line when it does not.
C6_SentencesApart ==
    pc = "done" =>
        /\ lines = <<FirstSentence, <<>>, SecondSentence>>
               => joined = FirstSentence \o <<"\n", "\n">> \o SecondSentence
        /\ (lines = <<FirstSentence, SecondSentence>> /\ NoLineBreak(joined))
               => ContinuationRule(FirstSentence, SecondSentence)

ThisIsASentence ==
    <<"T","h","i","s"," ","i","s"," ","a"," ","s","e","n","t","e","n","c","e",".">>

\* C7: whenever the run ends with a hyphen and the next line is not blank,
\* the pass of the inner loop drops the hyphen and appends the next line
\* with nothing between and nothing lost, whatever its first character is;
\* "This is a sen-" and "tence." come out as "This is a sentence.".
C7_HyphenJoin ==
    /\ [][(/\ pc = "inner"
           /\ j <= Len(lines)
           /\ EndsWithHyphen(run)
           /\ LStrip(lines[j]) # <<>>)
          => (/\ run' = SubSeq(run, 1, Len(run) - 1) \o LStrip(lines[j])
              /\ Len(run') = Len(run) - 1 + Len(LStrip(lines[j]))
              /\ j' = j + 1
              /\ pc' = "inner")]_vars
    /\ [](pc = "done" /\ lines = <<ThisIsASen, Tence>> => joined = ThisIsASentence)

\* a hyphenated line was joined with a line that starts with a capital
C7_Witness ==
    /\ pc = "inner"
    /\ lines = <<ThisIsASen, SecondSentence>>
    /\ j = 3
    /\ run = SubSeq(ThisIsASen, 1, 13) \o SecondSentence

-----------------------------------------------------------------------------
(* Properties of the read path.                                            *)

\* the pages on which key is among the candidate keys Keys(page)
PagesWithKey(pages, Keys(_), key) ==
    {p \in DOMAIN pages : \E n \in DOMAIN Keys(pages[p]) : Keys(pages[p])[n] = key}

\* the candidate keys of all pages
KeysOfPages(pages, Keys(_)) ==
    UNION {{Keys(pages[p])[n] : n \in DOMAIN Keys(pages[p])} : p \in DOMAIN pages}

\* keys that are candidates on strictly more than half of the pages
MajorityKeys(pages, Keys(_)) ==
    {k \in KeysOfPages(pages, Keys) :
        2 * Cardinality(PagesWithKey(pages, Keys, k)) > Len(pages)}

\* C2: one page alone loses none of its non-empty lines to the header/footer
\* removal, and a single page with text does not come back as an empty text.
C2_SinglePageKept ==
    /\ (pc = "cleaned" /\ Len(pages_lines) = 1)
           => cleaned_pages[1] = NonEmptyStripped(pages_lines[1])
    /\ (pc = "done" /\ Len(pages_lines) = 1 /\ NonEmptyStripped(pages_lines[1]) # <<>>)
           => raw_text # <<>>

\* C3: the header keys are exactly the keys among the top candidates of
\* strictly more than half of the pages, the footer keys exactly those among
\* the bottom candidates of more than half of the pages: pages are counted.
C3_CountsPages ==
    pc = "cleaned" =>
        /\ header_candidates = MajorityKeys(pages_lines, TopKeys)
        /\ footer_candidates = MajorityKeys(pages_lines, BottomKeys)

\* N >= 2 pages, each beginning with "Confidential Report" and ending with
\* "Page p of N"
IsReport(pages) ==
    /\ Len(pages) >= 2
    /\ \A p \in DOMAIN pages :
          /\ Len(pages[p]) >= 2
          /\ pages[p][1] = ConfidentialReport
          /\ pages[p][Len(pages[p])] = PageOf(p, Len(pages))

\* the page's output is made of lines strictly between its first and its last
FromInside(page, cleaned) ==
    \E a \in 2..Len(page), b \in 1..(Len(page) - 1) :
        cleaned = NonEmptyStripped(SubSeq(page, a, b))

Holds(ls, line) == \E n \in DOMAIN ls : ls[n] = line

\* C4 as claimed: of such a report every page loses its first and its last
\* line, and no output page holds the header line or a footer line.
C4_NoneLeft ==
    (pc = "cleaned" /\ IsReport(pages_lines)) =>
        \A p \in DOMAIN pages_lines :
            /\ FromInside(pages_lines[p], cleaned_pages[p])
            /\ ~Holds(cleaned_pages[p], ConfidentialReport)
            /\ \A q \in DOMAIN pages_lines :
                  ~Holds(cleaned_pages[p], PageOf(q, Len(pages_lines)))

\* C4 as amended: of such a report every page loses its first and its last
\* line: its output is made of lines strictly between them, so that a header
\* or footer line is in the output only if it also stood inside the page.
C4_FirstAndLastStripped ==
    (pc = "cleaned" /\ IsReport(pages_lines)) =>
        \A p \in DOMAIN pages_lines :
            /\ FromInside(pages_lines[p], cleaned_pages[p])
            /\ \A line \in {ConfidentialReport} \cup
                           {PageOf(q, Len(pages_lines)) : q \in DOMAIN pages_lines} :
                  Holds(cleaned_pages[p], line) =>
                      Holds(SubSeq(pages_lines[p], 2, Len(pages_lines[p]) - 1), line)

C4_Witness ==
    /\ pc = "cleaned"
    /\ IsReport(pages_lines)
    /\ \A p \in DOMAIN pages_lines : cleaned_pages[p] = <<TextOf(p)>>

AllPagesEmpty(pages) == \A p \in DOMAIN pages : pages[p] = <<>>

\* C5: a PDF whose pages all have an empty line list is read without a
\* failure and ends in clean_file's "no text found" branch, and what that
\* branch is not taken for, a successful extraction, is never an empty text.
C5_NoTextOutcome ==
    /\ (AllPagesEmpty(pages_lines) /\ pc # "done") => ENABLED NextRead
    /\ (AllPagesEmpty(pages_lines) /\ pc = "done")
           => (raw_text = <<>> /\ outcome = "no_text")
    /\ (pc = "done" /\ outcome = "ok") => Strip(raw_text) # <<>>

C5_Witness ==
    /\ pc = "done"
    /\ Len(pages_lines) = 2
    /\ AllPagesEmpty(pages_lines)
    /\ outcome = "no_text"

-----------------------------------------------------------------------------
(* Properties of the builders' tables.                                     *)

IsTable(block) == block.kind = "table"

\* the rows of the tables among the blocks, table after table
TablesOf(blocks) ==
    LET tables == SelectSeq(blocks, IsTable)
    IN  [n \in 1..Len(tables) |-> tables[n].rows]

RowLines == {Row(cells) : cells \in TableRows}

\* the cells a table line of the inputs was written from
CellsGiven(line) == CHOOSE cells \in TableRows : Row(cells) = line

\* content holds one table: a header line at h, the separator line after
\* it, data lines up to e, and no pipe in any line before or after
OneTableAt(h, e) ==
    /\ h + 1 <= e /\ e <= Len(content)
    /\ content[h] \in RowLines
    /\ IsSeparator(content[h + 1])
    /\ \A k \in (h + 2)..e : content[k] \in RowLines
    /\ \A k \in DOMAIN content : (k < h \/ k > e) => ~HasPipe(content[k])

\* the header's cells, then the cells of each data line
GivenRows(h, e) ==
    <<CellsGiven(content[h])>>
        \o [k \in 1..(e - h - 1) |-> CellsGiven(content[h + 1 + k])]

Rectangular(rows) == \A r \in DOMAIN rows : Len(rows[r]) = Len(rows[1])

EscapedRows(rows) ==
    [r \in DOMAIN rows |-> [c \in DOMAIN rows[r] |-> Escape(rows[r][c])]]

\* C9: when the content holds one table, a header line, a separator line
\* and n data lines of as many cells as the header, with no pipe in any
\* other line, then both builders finish and each has exactly one table,
\* whose rows are the header's cells followed by the cells of the n data
\* lines in their order (in the PDF with the cell texts escaped); the
\* separator is not a row.
C9_TableRoundTrip ==
    \A h, e \in DOMAIN content :
        (pc = "done" /\ OneTableAt(h, e) /\ Rectangular(GivenRows(h, e)))
            => /\ ~failed
               /\ TablesOf(story) = <<EscapedRows(GivenRows(h, e))>>
               /\ TablesOf(doc) = <<GivenRows(h, e)>>

C9_Witness ==
    /\ pc = "done"
    /\ ~failed
    /\ content = <<Row(HeaderCells), SeparatorLine, Row(DataCells), Row(DataCells)>>
    /\ OneTableAt(1, 4)
    /\ TablesOf(doc) = << <<HeaderCells, DataCells, DataCells>> >>
    /\ Len(TablesOf(story)) = 1

\* the first n cells of a row, with empty cells after the last when the
\* row has fewer
Reconciled(cells, n) ==
    [c \in 1..n |-> IF c <= Len(cells) THEN cells[c] ELSE <<>>]

ReconciledRows(rows) ==
    [r \in DOMAIN rows |-> Reconciled(rows[r], Len(rows[1]))]

\* C10: when the content holds one table in which some line has more or
\* fewer cells than the header, both builders finish and each has that
\* table with every row brought to the header's number of cells: empty
\* cells added to a shorter row, the cells beyond that number left out of
\* a longer one.
C10_RaggedReconciled ==
    \A h, e \in DOMAIN content :
        (pc = "done" /\ OneTableAt(h, e) /\ ~Rectangular(GivenRows(h, e)))
            => /\ ~failed
               /\ TablesOf(story) = <<EscapedRows(ReconciledRows(GivenRows(h, e)))>>
               /\ TablesOf(doc) = <<ReconciledRows(GivenRows(h, e))>>

-----------------------------------------------------------------------------
(* Properties of the builders on lines that give no table row.             *)

\* sub occurs in s
Contains(s, sub) ==
    \E a \in 1..(Len(s) - Len(sub) + 1) : SubSeq(s, a, a + Len(sub) - 1) = sub

\* the texts of a block: a paragraph's text, a table's cells
TextsOf(block) ==
    IF block.kind = "para" THEN {block.text}
    ELSE IF block.kind = "table"
    THEN {block.rows[r][c] : r \in DOMAIN block.rows, c \in 1..MaxLen(block.rows)}
    ELSE {}

\* the text between the pipes of a line, piece by piece, blank pieces left out
Pieces(line) ==
    LET parts == SplitAtPipes(line)
    IN  {Strip(parts[n]) : n \in DOMAIN parts} \ {<<>>}

\* every piece of the line is in the text of some block
Rendered(blocks, line) ==
    \A piece \in Pieces(line) :
        \E n \in DOMAIN blocks :
            \E t \in TextsOf(blocks[n]) : Contains(t, Escape(piece))

\* a line with a pipe whose cells give no row of a table
NoUsableRow(line) == HasPipe(line) /\ Strip(line) # <<>> /\ ~RowKept(Cells(line))

\* C11: when both builders are through, neither has failed and the text of
\* every line that holds a pipe but gives no usable table row is in some
\* block of the PDF story and in some block of the DOCX document.
C11_FragmentRendered ==
    pc = "done" =>
        /\ ~failed
        /\ \A k \in DOMAIN content :
              NoUsableRow(content[k])
                  => Rendered(story, content[k]) /\ Rendered(doc, content[k])

-----------------------------------------------------------------------------
(* The two builders compared.                                              *)

NotSpacer(block) == block.kind # "spacer"

NotEmptyParagraph(block) == ~(block.kind = "para" /\ block.text = <<>>)

\* a block of the PDF story and a block of the DOCX document are the same
\* paragraph chunk or the same table; the PDF's cells are escaped, the
\* chunk texts are escaped in both
SameBlock(p, d) ==
    /\ p.kind = d.kind
    /\ IF p.kind = "table" THEN p.rows = EscapedRows(d.rows) ELSE p.text = d.text

\* C12: when both builders are through, neither has failed, and the blocks
\* of the PDF story without its spacers are, one by one and in the same
\* order, the blocks of the DOCX document without its empty spacing
\* paragraphs: the same paragraph chunks and the same table rows and cells.
C12_SameBlocks ==
    pc = "done" =>
        /\ ~failed
        /\ LET p == SelectSeq(story, NotSpacer)
               d == SelectSeq(doc, NotEmptyParagraph)
           IN  /\ Len(p) = Len(d)
               /\ \A n \in DOMAIN p : n \in DOMAIN d => SameBlock(p[n], d[n])

-----------------------------------------------------------------------------
(* The builders' merge of paragraph lines against join_broken_lines.       *)

IsParagraph(block) == block.kind = "para" /\ block.text # <<>>

\* the texts of the paragraphs among the blocks added after the first n
ParagraphsAfter(blocks, n) ==
    LET added == SelectSeq(From(blocks, n + 1), IsParagraph)
    IN  [k \in 1..Len(added) |-> added[k].text]

\* the lines join_broken_lines makes of the paragraph lines from position k
\* on by its merge decisions (its out_lines), escaped as the builders do
MergedAsJoinBrokenLines(ls, k) ==
    LET outs == OutLinesFrom(ParaLines(ls, k), 1)
    IN  [n \in 1..Len(outs) |-> Escape(outs[n])]

\* C15: a pass of either builder over a buffer of paragraph lines merges
\* them into the same paragraphs as the merge decisions of
\* join_broken_lines do: hyphen join, break after . ! ? :, join when the
\* next line starts with a lowercase letter or a digit, join of a running
\* line under 40 characters only with a next line that starts lowercase.
C15_SameMerge ==
    [][ /\ (pc = "pdf" /\ pdf_i' > pdf_i /\ ParaRunLen(content, pdf_i) > 0)
            => ParagraphsAfter(story', Len(story))
                   = MergedAsJoinBrokenLines(content, pdf_i)
        /\ (pc = "docx" /\ docx_i' > docx_i /\ ParaRunLen(content, docx_i) > 0)
            => ParagraphsAfter(doc', Len(doc))
                   = MergedAsJoinBrokenLines(content, docx_i) ]_vars

-----------------------------------------------------------------------------
(* The main loops of the builders.                                         *)

\* the lines from position a up to b - 1 are of one kind: all hold a pipe
\* (a table run), or all are non-blank lines without a pipe (a paragraph
\* buffer), or they are a single blank line
OneKind(ls, a, b) ==
    \/ \A k \in a..(b - 1) : HasPipe(ls[k])
    \/ \A k \in a..(b - 1) : ~HasPipe(ls[k]) /\ Strip(ls[k]) # <<>>
    \/ b = a + 1 /\ ~HasPipe(ls[a]) /\ Strip(ls[a]) = <<>>

\* a pass of a main loop moves its index forward, not past the end, over
\* lines of one kind
Advances(at, after) ==
    /\ after > at
    /\ after <= Len(content) + 1
    /\ OneKind(content, at, after)

\* C16: every pass of the main loop of either builder moves the line index
\* forward, never past the end, over lines of one kind (a table run, a
\* paragraph buffer or one blank line), so that no line is passed twice and
\* the loop cannot go on for ever; and when the builders are through, each
\* has moved its index over every line of the content.
C16_EveryLineConsumed ==
    /\ [][ /\ (pc = "pdf" /\ pdf_i <= Len(content)) => Advances(pdf_i, pdf_i')
           /\ (pc = "docx" /\ docx_i <= Len(content)) => Advances(docx_i, docx_i')
         ]_vars
    /\ [](pc = "done" => pdf_i = Len(content) + 1 /\ docx_i = Len(content) + 1)

-----------------------------------------------------------------------------
(* Properties of normalize_whitespace.                                     *)

NoTab(s) == \A n \in DOMAIN s : s[n] # "\t"

\* more than 2 blank lines one after the other: 4 newlines in a row
BlankRunOver2(s) ==
    \E n \in 1..(Len(s) - 3) : \A k \in n..(n + 3) : s[k] = "\n"

\* no line starts or ends with a space or a tab
LinesTrimmed(s) ==
    \A n \in DOMAIN s :
        s[n] \in {" ", "\t"}
            => /\ n > 1 /\ s[n - 1] # "\n"
               /\ n < Len(s) /\ s[n + 1] # "\n"

\* C13: what normalize_whitespace returns has no tab in it, no run of more
\* than 2 blank lines, and no line with a space at its start or end.
C13_NormalizedText ==
    pc \in {"normalized", "done"} =>
        /\ NoTab(once)
        /\ ~BlankRunOver2(once)
        /\ LinesTrimmed(once)

\* C1: normalize_whitespace is idempotent: normalizing a result again leaves
\* it unchanged, for every input text.
C1_Idempotent == pc = "done" => twice = once

====
